---- MODULE Spec2Model ----
(***************************************************************************)
(* Batch preparation of riccardomusmeci/rapnet.                            *)
(*                                                                         *)
(* The repository holds the pipeline twice, statement for statement:       *)
(*   src/utils/data_loader.py   class DataLoader                           *)
(*   src/test.py                the module-level script (lines 6-40) and   *)
(*                              the DataProvider class (lines 44-80)       *)
(* The two texts differ in one statement.  data_loader.py:46 reads         *)
(*   sorted(collections.Counter(self.data),items(), key=...)               *)
(* with a comma where test.py:13 has a dot; evaluating the arguments looks *)
(* up the free name `items` and raises NameError before sorted is called,  *)
(* so DataLoader.__prepare_data stops at line 46 for every corpus.         *)
(* The variable `copy` records which text of the constructor is executed.  *)
(* Every other definition is the statement that both texts share.          *)
(*                                                                         *)
(* A character string is a sequence over Alphabet, an array a sequence of  *)
(* integers, a 2-D array a sequence of rows.  TLA+ sequences start at 1,   *)
(* Python's at 0: element i of the source is element i+1 here.             *)
(***************************************************************************)
EXTENDS Integers, Sequences, FiniteSets

\* ---- bounds of the model ----
MaxLen == 8
MaxBatchSize == 2
MaxSequenceLength == 2
MaxTraversals == 2

Alphabet == {"a", "b"}
Corpora == UNION {[1..n -> Alphabet] : n \in 0..MaxLen}
Copies == {"data_loader.py", "test.py"}
FileStatuses == {"ok", "missing", "unreadable", "undecodable"}
NoError == [kind |-> "none", at |-> "none"]

VARIABLES
  copy,             \* which text of the constructor runs
  file_status,      \* what the path given to the constructor points at
  file_content,     \* the text of the file when it is readable
  batch_size, sequence_length,
  pc,               \* Uninitialized, Loaded, Prepared, Failed
  error,            \* the exception that left the constructor
  assigned,         \* names of the attributes that hold a value
  data, chars, vocabulary_size, vocabulary, tensor_data, batches_size,
  targets,          \* the local `targets` of the preparation
  input_batches, target_batches,
  pointer,          \* DataProvider.pointer
  gen,              \* position of the live generator of data_generator
  mode,             \* none, pointer, generator: how the traversal runs
  yielded,          \* pairs handed out by the current traversal
  exhausted,        \* the current traversal has signalled its end
  traversals,       \* traversals begun so far
  first, first_exhausted  \* what the first traversal handed out

cfg == <<copy, file_status, file_content, batch_size, sequence_length>>
attrs == <<data, chars, vocabulary_size, vocabulary, tensor_data,
           batches_size, targets, input_batches, target_batches>>
iter == <<pointer, gen, mode, yielded, exhausted, traversals, first,
          first_exhausted>>
vars == <<cfg, pc, error, assigned, attrs, iter>>

\* ---- loading ----

\* codecs.open(path, "r", encoding="utf-8") and f.read()
open_outcome(status) ==
  CASE status = "ok" -> "none"
    [] status = "missing" -> "FileNotFoundError"
    [] status = "unreadable" -> "PermissionError"
    [] status = "undecodable" -> "UnicodeDecodeError"

load_handler_swallow(c, raised) == "none"

\* try: ... except FileExistsError: logging.error(...); exit(1)
\* test.py opens the file with no try statement.
load_handler(c, raised) ==
  IF c = "data_loader.py" /\ raised = "FileExistsError"
  THEN "SystemExit" ELSE raised

\* ---- vocabulary ----

RECURSIVE Counter(_)
\* collections.Counter(data).items(): (char, count) in order of first
\* appearance (dict order, Python 3.7 and later)
Counter(s) ==
  IF s = <<>> THEN <<>>
  ELSE LET init == Counter(SubSeq(s, 1, Len(s) - 1))
           c == s[Len(s)]
           hit == {i \in 1..Len(init) : init[i][1] = c}
       IN IF hit = {} THEN Append(init, <<c, 1>>)
          ELSE LET i == CHOOSE j \in hit : TRUE
               IN [init EXCEPT ![i] = <<c, init[i][2] + 1>>]

RECURSIVE sorted(_)
\* sorted(pairs, key=lambda x: -x[1]): stable, descending count
sorted(pairs) ==
  IF pairs = <<>> THEN <<>>
  ELSE LET init == sorted(SubSeq(pairs, 1, Len(pairs) - 1))
           p == pairs[Len(pairs)]
           pos == Cardinality({i \in 1..Len(init) : -init[i][2] <= -p[2]})
       IN SubSeq(init, 1, pos) \o <<p>> \o SubSeq(init, pos + 1, Len(init))

\* data_loader.py:46: the argument list evaluates the free name `items`
count_pairs_loader(s) ==
  [error |-> [kind |-> "NameError", at |-> "count_pairs"], pairs |-> <<>>]

\* test.py:13
count_pairs_script(s) == [error |-> NoError, pairs |-> sorted(Counter(s))]

count_pairs(c, s) ==
  IF c = "data_loader.py" THEN count_pairs_loader(s) ELSE count_pairs_script(s)

\* chars, _ = zip(*count_pairs): unpacking nothing into two names raises
unzip_chars(pairs) ==
  IF pairs = <<>>
  THEN [error |-> [kind |-> "ValueError", at |-> "unpack"], chars |-> <<>>]
  ELSE [error |-> NoError, chars |-> [i \in 1..Len(pairs) |-> pairs[i][1]]]

\* dict(zip(chars, range(len(chars)))): a later pair overwrites an earlier one
make_vocabulary(cs) ==
  [c \in {cs[i] : i \in 1..Len(cs)} |->
     (CHOOSE i \in 1..Len(cs) :
        cs[i] = c /\ \A j \in 1..Len(cs) : cs[j] = c => j <= i) - 1]

\* np.array(list(map(vocabulary.get, data)))
encode(voc, s) == [i \in 1..Len(s) |-> voc[s[i]]]

\* ---- batches ----

\* int(tensor_data.size / (batch_size * sequence_length)): true division, then
\* truncation; for sizes below 2^53 this is the floor of the quotient
batches_size_of(size, bs, sl) == size \div (bs * sl)

insufficient_never(n) == FALSE

\* if self.batches_size == 0: assert False, "Unable to generate batches..."
\* (the interpreter's default mode, in which assert statements are executed)
insufficient(n) == n = 0

truncate_tail(t, usable) == SubSeq(t, Len(t) - usable + 1, Len(t))

\* tensor_data[:batches_size * batch_size * sequence_length]
truncate(t, usable) == SubSeq(t, 1, usable)

\* targets bound to the same array as inputs: both end as the shifted array
shift_targets_alias(t) ==
  IF t = <<>>
  THEN [error |-> [kind |-> "IndexError", at |-> "wrap"],
        inputs |-> t, targets |-> t]
  ELSE LET n == Len(t)
           s1 == [i \in 1..n |-> IF i < n THEN t[i + 1] ELSE t[i]]
           s2 == [s1 EXCEPT ![n] = s1[1]]
       IN [error |-> NoError, inputs |-> s2, targets |-> s2]

\* the last element keeps its own value: the wraparound statement is missing
shift_targets_nowrap(t) ==
  IF t = <<>>
  THEN [error |-> [kind |-> "IndexError", at |-> "wrap"],
        inputs |-> t, targets |-> t]
  ELSE [error |-> NoError, inputs |-> t,
        targets |-> [i \in 1..Len(t) |-> IF i < Len(t) THEN t[i + 1] ELSE t[i]]]

\* inputs = tensor_data; targets = np.copy(tensor_data)
\* targets[:-1] = inputs[1:]; targets[-1] = inputs[0]
\* (inputs[0] of an empty array raises IndexError)
shift_targets(t) ==
  IF t = <<>>
  THEN [error |-> [kind |-> "IndexError", at |-> "wrap"],
        inputs |-> t, targets |-> t]
  ELSE [error |-> NoError, inputs |-> t,
        targets |-> [i \in 1..Len(t) |-> IF i < Len(t) THEN t[i + 1] ELSE t[1]]]

\* a.reshape(rows, -1), row-major
reshape(flat, rows) ==
  LET cols == Len(flat) \div rows
  IN [r \in 1..rows |-> SubSeq(flat, (r - 1) * cols + 1, r * cols)]

\* np.split(grid, sections, 1): equal chunks along the column axis
np_split(grid, sections) ==
  LET width == Len(grid[1]) \div sections
  IN [k \in 1..sections |->
        [r \in 1..Len(grid) |-> SubSeq(grid[r], (k - 1) * width + 1, k * width)]]

split_batches_swapped(flat, bs, n) == np_split(reshape(flat, n), bs)

\* np.split(x.reshape(self.batch_size, -1), self.batches_size, 1)
split_batches(flat, bs, n) == np_split(reshape(flat, bs), n)

\* the attributes before __prepare_data has assigned any of them
Unset ==
  [error |-> NoError, assigned |-> {},
   chars |-> <<>>, vocabulary_size |-> 0, vocabulary |-> <<>>,
   tensor_data |-> <<>>, batches_size |-> 0, targets |-> <<>>,
   input_batches |-> <<>>, target_batches |-> <<>>]

\* lines 57-76 of __prepare_data, given the encoded corpus
compute_batches(r, bs, sl) ==
  LET n == batches_size_of(Len(r.tensor_data), bs, sl)
      r1 == [r EXCEPT !.batches_size = n,
                      !.assigned = r.assigned \cup {"batches_size"}]
  IN IF insufficient(n)
     THEN [r1 EXCEPT !.error = [kind |-> "AssertionError", at |-> "validate"]]
     ELSE LET t == truncate(r.tensor_data, n * bs * sl)
              s == shift_targets(t)
              r2 == [r1 EXCEPT !.tensor_data = s.inputs, !.targets = s.targets]
          IN IF s.error # NoError THEN [r2 EXCEPT !.error = s.error]
             ELSE [r2 EXCEPT
                     !.input_batches = split_batches(s.inputs, bs, n),
                     !.target_batches = split_batches(s.targets, bs, n),
                     !.assigned = r1.assigned \cup
                                    {"input_batches", "target_batches"}]

\* __prepare_data as a whole: every attribute it leaves and the exception, if any
prepare(c, s, bs, sl) ==
  LET r0 == Unset
      cp == count_pairs(c, s)
  IN IF cp.error # NoError THEN [r0 EXCEPT !.error = cp.error]
     ELSE LET u == unzip_chars(cp.pairs)
          IN IF u.error # NoError THEN [r0 EXCEPT !.error = u.error]
             ELSE LET voc == make_vocabulary(u.chars)
                      r1 == [r0 EXCEPT
                               !.chars = u.chars,
                               !.vocabulary_size = Len(u.chars),
                               !.vocabulary = voc,
                               !.tensor_data = encode(voc, s),
                               !.assigned = {"chars", "vocabulary_size",
                                             "vocabulary", "tensor_data"}]
                  IN compute_batches(r1, bs, sl)

\* ---- the batcher ----

Init ==
  /\ copy \in Copies
  /\ file_status \in FileStatuses
  /\ file_content \in (IF file_status = "ok" THEN Corpora ELSE {<<>>})
  /\ batch_size \in 1..MaxBatchSize
  /\ sequence_length \in 1..MaxSequenceLength
  /\ pc = "Uninitialized"
  /\ error = NoError
  /\ assigned = {}
  /\ data = <<>>
  /\ chars = Unset.chars
  /\ vocabulary_size = Unset.vocabulary_size
  /\ vocabulary = Unset.vocabulary
  /\ tensor_data = Unset.tensor_data
  /\ batches_size = Unset.batches_size
  /\ targets = Unset.targets
  /\ input_batches = Unset.input_batches
  /\ target_batches = Unset.target_batches
  /\ pointer = 0
  /\ gen = 0
  /\ mode = "none"
  /\ yielded = <<>>
  /\ exhausted = FALSE
  /\ traversals = 0
  /\ first = <<>>
  /\ first_exhausted = FALSE

\* self.data = None; self.__load_dataset(data_dir)
load_dataset ==
  /\ pc = "Uninitialized"
  /\ LET raised == open_outcome(file_status)
         leaves == load_handler(copy, raised)
     IN /\ IF raised = "none"
           THEN data' = file_content /\ assigned' = assigned \cup {"data"}
           ELSE UNCHANGED <<data, assigned>>
        /\ IF leaves = "none"
           THEN pc' = "Loaded" /\ UNCHANGED error
           ELSE pc' = "Failed" /\ error' = [kind |-> leaves, at |-> "load"]
  /\ UNCHANGED <<cfg, chars, vocabulary_size, vocabulary, tensor_data,
                 batches_size, targets, input_batches, target_batches, iter>>

\* self.batch_size = ...; self.sequence_length = ...; self.__prepare_data()
prepare_data ==
  /\ pc = "Loaded"
  /\ LET r == prepare(copy, data, batch_size, sequence_length)
     IN /\ chars' = r.chars
        /\ vocabulary_size' = r.vocabulary_size
        /\ vocabulary' = r.vocabulary
        /\ tensor_data' = r.tensor_data
        /\ batches_size' = r.batches_size
        /\ targets' = r.targets
        /\ input_batches' = r.input_batches
        /\ target_batches' = r.target_batches
        /\ assigned' = assigned \cup r.assigned
        /\ error' = r.error
        /\ pc' = IF r.error = NoError THEN "Prepared" ELSE "Failed"
        \* test.py:50 self.pointer = 0: a Prepared batcher stands at the
        \* beginning of its first traversal
        /\ traversals' = IF r.error = NoError THEN 1 ELSE 0
  /\ pointer' = 0
  /\ UNCHANGED <<cfg, data, gen, mode, yielded, exhausted, first,
                 first_exhausted>>

\* ---- traversal ----
\* data_generator (DataLoader) and next_batch / reset_batch_pointer
\* (DataProvider) read input_batches and target_batches and nothing else of
\* the batcher; each is modelled on every Prepared batcher.

pair_at_crossed(k) == <<input_batches[k], target_batches[1]>>

\* the k-th element of zip(self.input_batches, self.target_batches);
\* next_batch reads both lists at self.pointer
pair_at(k) == <<input_batches[k], target_batches[k]>>

\* bookkeeping of the traversal log when a traversal begins
begin_traversal(m) ==
  /\ traversals < MaxTraversals
  /\ traversals' = traversals + 1
  /\ first' = IF traversals = 1 THEN yielded ELSE first
  /\ first_exhausted' = IF traversals = 1 THEN exhausted ELSE first_exhausted
  /\ yielded' = <<>>
  /\ exhausted' = FALSE
  /\ mode' = m

\* calling data_generator(): a new generator, positioned before the first pair
data_generator ==
  /\ pc = "Prepared"
  /\ begin_traversal("generator")
  /\ gen' = 0
  /\ UNCHANGED <<cfg, pc, error, assigned, attrs, pointer>>

\* next() on the generator: the for loop over zip yields or returns
generator_next ==
  /\ pc = "Prepared" /\ mode = "generator" /\ ~exhausted
  /\ IF gen < Len(input_batches) /\ gen < Len(target_batches)
     THEN /\ yielded' = Append(yielded, pair_at(gen + 1))
          /\ gen' = gen + 1
          /\ UNCHANGED exhausted
     ELSE /\ exhausted' = TRUE
          /\ UNCHANGED <<yielded, gen>>
  /\ UNCHANGED <<cfg, pc, error, assigned, attrs, pointer, mode, traversals,
                 first, first_exhausted>>

reset_batch_pointer_keep ==
  /\ pc = "Prepared"
  /\ begin_traversal("pointer")
  /\ pointer' = pointer
  /\ UNCHANGED <<cfg, pc, error, assigned, attrs, gen>>

\* DataProvider.reset_batch_pointer
reset_batch_pointer ==
  /\ pc = "Prepared"
  /\ begin_traversal("pointer")
  /\ pointer' = 0
  /\ UNCHANGED <<cfg, pc, error, assigned, attrs, gen>>

\* DataProvider.next_batch: indexing past the end raises IndexError and
\* leaves the pointer where it is
next_batch ==
  /\ pc = "Prepared" /\ mode \in {"none", "pointer"} /\ ~exhausted
  /\ IF pointer < Len(input_batches) /\ pointer < Len(target_batches)
     THEN /\ yielded' = Append(yielded, pair_at(pointer + 1))
          /\ pointer' = pointer + 1
          /\ UNCHANGED exhausted
     ELSE /\ exhausted' = TRUE
          /\ UNCHANGED <<yielded, pointer>>
  /\ mode' = "pointer"
  /\ UNCHANGED <<cfg, pc, error, assigned, attrs, gen, traversals, first,
                 first_exhausted>>

Next ==
  \/ load_dataset
  \/ prepare_data
  \/ data_generator
  \/ generator_next
  \/ reset_batch_pointer
  \/ next_batch

Spec == Init /\ [][Next]_vars

\* ---- what the properties speak about ----

RECURSIVE Flatten(_)
\* the rows of a 2-D array one after the other
Flatten(rows) ==
  IF rows = <<>> THEN <<>>
  ELSE Flatten(SubSeq(rows, 1, Len(rows) - 1)) \o rows[Len(rows)]

RECURSIVE BatchAfterBatch(_)
\* the batches read one after the other, each row by row
BatchAfterBatch(bs) ==
  IF bs = <<>> THEN <<>>
  ELSE BatchAfterBatch(SubSeq(bs, 1, Len(bs) - 1)) \o Flatten(bs[Len(bs)])

\* the batches put side by side along the column axis, then read row by row
SideBySide(bs) ==
  IF bs = <<>> THEN <<>>
  ELSE Flatten([r \in 1..Len(bs[1]) |->
                  Flatten([k \in 1..Len(bs) |-> bs[k][r]])])

usable_length == batches_size * batch_size * sequence_length

\* the codes of the first usable_length characters of the corpus
EncodedPrefix == [i \in 1..usable_length |-> vocabulary[data[i]]]

Distinct(s) == {s[i] : i \in 1..Len(s)}

\* __prepare_data has been entered and has returned or raised
PrepareRan == pc \in {"Prepared", "Failed"} /\ "data" \in assigned

C4_VocabularyIsBijection ==
  PrepareRan =>
    /\ vocabulary_size = Cardinality(Distinct(data))
    /\ DOMAIN vocabulary = Distinct(data)
    /\ {vocabulary[c] : c \in DOMAIN vocabulary} = 0..(vocabulary_size - 1)
    /\ \A c, d \in DOMAIN vocabulary : vocabulary[c] = vocabulary[d] => c = d

\* C5: when the path is missing or unreadable, loading fails, the failure
\* leaves the constructor, no corpus is set and the preparation never runs.
C5_FailedLoadIsFatal ==
  (file_status # "ok" /\ pc # "Uninitialized") =>
    /\ pc = "Failed"
    /\ error.at = "load"
    /\ error.kind \in {"FileNotFoundError", "PermissionError",
                       "UnicodeDecodeError"}
    /\ assigned = {} /\ data = <<>>
    /\ chars = <<>> /\ vocabulary = <<>> /\ tensor_data = <<>>
    /\ input_batches = <<>> /\ target_batches = <<>> /\ yielded = <<>>

C5_Witness ==
  /\ copy = "data_loader.py" /\ file_status = "missing"
  /\ pc = "Failed" /\ error.kind = "FileNotFoundError"

\* C6 as stated: for an empty corpus the vocabulary step raises nothing and
\* leaves an empty vocabulary (size 0, no characters); the run fails only at
\* the batch validation, with the batches_size == 0 rejection.
C6_EmptyCorpusFailsAtValidation ==
  (PrepareRan /\ data = <<>>) =>
    /\ {"chars", "vocabulary_size", "vocabulary"} \subseteq assigned
    /\ vocabulary_size = 0 /\ chars = <<>> /\ vocabulary = <<>>
    /\ pc = "Failed"
    /\ error = [kind |-> "AssertionError", at |-> "validate"]

AgreesWithFirst ==
  traversals >= 2 =>
    /\ \A k \in 1..Len(yielded) : k <= Len(first) => yielded[k] = first[k]
    /\ exhausted => Len(first) <= Len(yielded)
    /\ (exhausted /\ first_exhausted) => yielded = first

====
